---- MODULE Spec2Model ----
(***************************************************************************)
(* Model of heteroflow/core/graph.hpp: the Node of the task graph, its     *)
(* dependency-edge bookkeeping (_precede), its union-find device-affinity  *)
(* fields (_root, _union) and the DeviceGroup shared by an affinity set.   *)
(*                                                                         *)
(* A Node is identified by its address; here by a number in Node.          *)
(***************************************************************************)
EXTENDS Integers, FiniteSets, Sequences, TLC

\* ------------------------------------------------------------------ bounds

\* Nodes that call _union (kernels) and nodes passed to it (their sources).
NumKernels == 4
NumSources == 4
\* Further kernels, each with a further source, of the larger affinity graph.
NumMore == 3
\* Nodes wired by _precede, and the number of _precede calls of one build.
NumTasks == 3
MaxEdges == 3
\* Threads racing to add a predecessor to one target.
NumRacers == 3
\* Worker threads of the executor.
NumWorkers == 2
\* Concurrent callers of claim / join on one DeviceGroup, and physical devices.
NumClaimers == 3
NumJoiners == 2
NumDevices == 4
\* Nodes constructed with a payload of any kind and any name, then wired to
\* the tasks, classified, accessed and dumped.
NumBuilt == 1

Kernels == 1..NumKernels
Sources == (NumKernels + 1)..(NumKernels + NumSources)
Node    == 1..(NumKernels + NumSources + 2 * NumMore)
Task    == 1..NumTasks
Racer   == 1..NumRacers
Claimer == 1..NumClaimers
Joiner  == 1..NumJoiners
Device  == 0..(NumDevices - 1)
Built   == 1..NumBuilt

\* ------------------------------------------------------------------- state

VARIABLES
  _parent,          \* Node::_parent, per node
  _tree_size,       \* Node::_tree_size, per node
  ndebug,           \* the build: TRUE when assert() is compiled out (NDEBUG)
  aborted,          \* assert(xroot != yroot) failed and the process aborted
  linked,           \* history: least node _union-connected to each node
  _successors,      \* Node::_successors, per node
  _dependents,      \* Node::_dependents, per node
  _num_dependents,  \* Node::_num_dependents, per node
  precede_log,      \* history: the <<U, V>> of every _precede call, in order
  race_pc,          \* per racing thread: the line of _precede it is about to run
  race_end,         \* per racing thread: the end of rhs->_dependents it loaded
  race_mem,         \* the element slots of the race target's _dependents buffer
  phase,            \* "build" while the graph is wired, "run" once handed over
  nstate,           \* per node: waiting / ready / running / notifying / done
  notify_idx,       \* per node: next entry of _successors to decrement
  dispatched,       \* history: how many times each node was dispatched
  device_id,        \* DeviceGroup::device_id
  num_tasks,        \* DeviceGroup::num_tasks
  proposal,         \* per claimer: the device it proposes
  claim_pc,         \* per claimer: "call" / "done"
  claim_ret,        \* per claimer: the value claim returned
  join_pc,          \* per joiner: "call" / "done"
  _handle,          \* Node::_handle, per node: the active alternative and its data
  _name,            \* Node::_name, per node
  result            \* what the last const member call (query, accessor, dump) gave

ufVars    == <<_parent, _tree_size, ndebug, aborted, linked>>
graphVars == <<_successors, _dependents, _num_dependents, precede_log>>
raceVars  == <<race_pc, race_end, race_mem>>
execVars  == <<phase, nstate, notify_idx, dispatched>>
groupVars == <<device_id, num_tasks, proposal, claim_pc, claim_ret, join_pc>>
nodeVars  == <<_handle, _name, result>>
vars      == <<ufVars, graphVars, raceVars, execVars, groupVars, nodeVars>>

\* ----------------------------------------------------------------- helpers

Min(a, b) == IF a < b THEN a ELSE b

\* Number of entries of the sequence s equal to x.
RECURSIVE Count(_, _)
Count(s, x) ==
  IF s = <<>> THEN 0
  ELSE (IF Head(s) = x THEN 1 ELSE 0) + Count(Tail(s), x)

\* --------------------------------------------------------- construction

\* The default member initialisers of Node.
NodeInit ==
  /\ _parent = [n \in Node |-> n]
  /\ _tree_size = [n \in Node |-> 1]
  /\ _successors = [n \in Node |-> <<>>]
  /\ _dependents = [n \in Node |-> <<>>]
  /\ _num_dependents = [n \in Node |-> 0]

\* DeviceGroup with device_id value-initialised instead of set to -1.
DeviceGroup_zero_id == [device_id |-> 0, num_tasks |-> 0]

\* DeviceGroup with num_tasks initialised to one instead of zero.
DeviceGroup_one_task == [device_id |-> -1, num_tasks |-> 1]

\* The default member initialisers of DeviceGroup.
DeviceGroup == [device_id |-> -1, num_tasks |-> 0]

\* The rest of the state before any operation: no call made, no thread started.
RestInit ==
  /\ aborted = FALSE
  /\ linked = [n \in Node |-> n]
  /\ precede_log = <<>>
  /\ race_pc = [t \in Racer |-> "L161"]
  /\ race_end = [t \in Racer |-> 0]
  /\ race_mem = [i \in Racer |-> 0]
  /\ phase = "build"
  /\ nstate = [n \in Node |-> "waiting"]
  /\ notify_idx = [n \in Node |-> 1]
  /\ dispatched = [n \in Node |-> 0]
  /\ device_id = DeviceGroup.device_id
  /\ num_tasks = DeviceGroup.num_tasks
  /\ claim_pc = [c \in Claimer |-> "call"]
  /\ claim_ret = [c \in Claimer |-> -1]
  /\ join_pc = [j \in Joiner |-> "call"]

\* The alternatives of Node::_handle, in declaration order; index() of a
\* variant is the zero-based position of its active alternative.
VariantTypes == <<"Host", "Pull", "Push", "Kernel", "Transfer">>

Kind == {VariantTypes[i] : i \in DOMAIN VariantTypes}

index(h) == (CHOOSE i \in DOMAIN VariantTypes : VariantTypes[i] = h.type) - 1

\* Nodes constructed from a Host payload and never named; no const member
\* called yet. The payload's work is the node's own callable.
HostNodes ==
  /\ _handle = [n \in Node |-> [type |-> "Host", work |-> n]]
  /\ _name = [n \in Node |-> ""]
  /\ result = [op |-> "none"]

\* --------------------------------------------------------------- union-find

\* The loop of Node::_root: ptr starts at this; while ptr differs from
\* this->_parent, this->_parent is replaced by its own parent and ptr is set to
\* it. Yields the parent pointers it leaves behind and the node it returns.
RECURSIVE RootLoop(_, _, _)
RootLoop(p, this, ptr) ==
  IF ptr # p[this]
    THEN LET q == [p EXCEPT ![this] = p[p[this]]]
         IN  RootLoop(q, this, q[this])
    ELSE [parent |-> p, ret |-> ptr]

\* _root that also moves the parent of `this` one link up.
_root_splices_parent(p, this) ==
  LET r == RootLoop(p, this, this)
  IN  [parent |-> [r.parent EXCEPT ![p[this]] = p[p[p[this]]]], ret |-> r.ret]

_root(p, this) == RootLoop(p, this, this)

\* History of a _union(x, y) call: the sets of x and y are joined.
Link(c, x, y) ==
  [n \in Node |-> IF c[n] \in {c[x], c[y]} THEN Min(c[x], c[y]) ELSE c[n]]

\* Node::_union, called on `this` with argument y.
_union(this, y) ==
  /\ ~aborted
  /\ linked' = Link(linked, this, y)
  /\ UNCHANGED <<ndebug, graphVars, raceVars, execVars, groupVars, nodeVars>>
  /\ IF _parent[this] = _parent[y]
       THEN UNCHANGED <<_parent, _tree_size, aborted>>
       ELSE LET rx    == _root(_parent, this)
                ry    == _root(rx.parent, y)
                xroot == rx.ret
                yroot == ry.ret
                xrank == _tree_size[xroot]
                yrank == _tree_size[yroot]
            IN  IF xroot = yroot /\ ~ndebug
                  THEN /\ aborted' = TRUE
                       /\ _parent' = ry.parent
                       /\ UNCHANGED _tree_size
                  ELSE /\ UNCHANGED aborted
                       /\ IF xrank < yrank
                            THEN /\ _parent' = [ry.parent EXCEPT ![xroot] = yroot]
                                 /\ _tree_size' =
                                      [_tree_size EXCEPT ![yroot] = @ + xrank]
                            ELSE /\ _parent' = [ry.parent EXCEPT ![yroot] = xroot]
                                 /\ _tree_size' =
                                      [_tree_size EXCEPT ![xroot] = @ + yrank]

\* A call of Node::_root on x whose result is read by the caller (find).
Find(x) ==
  /\ ~aborted
  /\ _parent' = _root(_parent, x).parent
  /\ result' = [op |-> "find", wrote |-> (_parent' # _parent)]
  /\ UNCHANGED <<_tree_size, ndebug, aborted, linked>>
  /\ UNCHANGED <<graphVars, raceVars, execVars, groupVars, _handle, _name>>

InitUnionFind ==
  /\ NodeInit
  /\ RestInit
  /\ HostNodes
  /\ proposal = [c \in Claimer |-> 0]
  /\ ndebug \in BOOLEAN

NextUnionFind ==
  \/ \E x \in Kernels, y \in Sources : _union(x, y)
  \/ \E x \in Node : Find(x)

Spec == InitUnionFind /\ [][NextUnionFind]_vars

\* ------------------------------------------------- union-find: the claims

\* The node reached from x by following parent links until a node that is its
\* own parent (at most one link per node of the population).
RECURSIVE Walk(_, _, _)
Walk(p, x, k) == IF p[x] = x \/ k = 0 THEN x ELSE Walk(p, p[x], k - 1)

TrueRoot(p, x) == Walk(p, x, Cardinality(Node))

\* find(a) == find(b) as a caller evaluates it: two calls of _root, the second
\* on the parent pointers the first one left.
FindEq(a, b) ==
  LET ra == _root(_parent, a)
      rb == _root(ra.parent, b)
  IN  ra.ret = rb.ret

\* The members of the set of x, by the true roots.
SetOf(p, x) == {n \in Node : TrueRoot(p, n) = TrueRoot(p, x)}

\* C1: after any sequence of union calls on nodes that start as singletons,
\* find(A) == find(B) holds exactly when A and B were connected, directly or
\* transitively, by union calls.
C1_FindEqIffConnected ==
  ~aborted =>
    \A a, b \in Node : FindEq(a, b) <=> (linked[a] = linked[b])

\* C2: find(X) returns the true root of X's set, the self-parented node at the
\* end of X's whole parent chain, and so find(find(X)) == find(X).
C2_FindReturnsTrueRoot ==
  ~aborted =>
    \A x \in Node :
      LET r1 == _root(_parent, x)
          r2 == _root(r1.parent, r1.ret)
      IN  /\ r1.ret = TrueRoot(_parent, x)
          /\ r1.parent[r1.ret] = r1.ret
          /\ r2.ret = r1.ret

\* C3: whenever union(A, B) gets past its early return, the two roots it
\* computes are distinct: assert(xroot != yroot) never fails, whatever the
\* arguments.
C3_AssertNeverFails ==
  /\ ~aborted
  /\ \A x \in Kernels, y \in Sources :
       _parent[x] # _parent[y] =>
         LET rx == _root(_parent, x)
             ry == _root(rx.parent, y)
         IN  rx.ret # ry.ret

\* C4: union(A, B) on two nodes of one set is a no-op: the partition into
\* sets, the root of every set and every root's size counter stay as they were.
C4_UnionSameSetNoOp ==
  [][\A x \in Kernels, y \in Sources :
       (_union(x, y) /\ TrueRoot(_parent, x) = TrueRoot(_parent, y)) =>
         /\ ~aborted'
         /\ \A n \in Node : TrueRoot(_parent', n) = TrueRoot(_parent, n)
         /\ \A n \in Node :
              _parent[n] = n => _tree_size'[n] = _tree_size[n]]_vars

\* C5: the size counter of every representative equals the number of nodes of
\* its set, so the counters of all representatives sum to the number of nodes.
C5_RootSizeIsSetSize ==
  \A r \in Node :
    _parent[r] = r => _tree_size[r] = Cardinality(SetOf(_parent, r))

\* ------------------------------------- union-find: a larger affinity graph

\* The i-th kernel and the j-th source of the population.
KernelAt(i) == IF i <= NumKernels THEN i ELSE NumSources + i
SourceAt(j) == IF j <= NumSources THEN NumKernels + j ELSE NumKernels + NumMore + j

\* Kernel::sources of each kernel of the graph, by source number: kernels 1, 3
\* and 5 read their own source only; kernel 2 shares an input with kernel 1,
\* kernel 4 with kernels 2 and 3, kernel 6 with kernels 1 and 5, kernel 7 with
\* kernels 5 and 6. A kernel beyond these reads its own source only.
KernelSources == <<{1}, {1, 2}, {3}, {2, 3, 4}, {5}, {1, 5, 6}, {5, 6, 7}>>

sources(i) ==
  IF i \in DOMAIN KernelSources
    THEN {j \in KernelSources[i] : j <= NumSources + NumMore}
    ELSE {i}

\* Kernel i has been passed to _union: its history set has another member.
Placed(i) == \E n \in Node \ {KernelAt(i)} : linked[n] = linked[KernelAt(i)]

\* The builder places the kernels in order of their numbers; placing kernel i
\* calls _union on it with one of its sources (any of them, any number of
\* times). Counters beyond the size of the population end the build.
Place(i, j) ==
  /\ j \in sources(i)
  /\ \A k \in (i + 1)..(NumKernels + NumMore) : ~Placed(k)
  /\ \A n \in Node : _tree_size[n] <= Cardinality(Node)
  /\ _union(KernelAt(i), SourceAt(j))

\* The debug build (assert compiled in), every node a singleton.
InitPlace ==
  /\ NodeInit
  /\ RestInit
  /\ HostNodes
  /\ proposal = [c \in Claimer |-> 0]
  /\ ndebug = FALSE

NextPlace ==
  \E i \in 1..(NumKernels + NumMore), j \in 1..(NumSources + NumMore) : Place(i, j)

SpecPlace == InitPlace /\ [][NextPlace]_vars

\* Number of parent links from x to the end of its chain (at most k).
RECURSIVE Depth(_, _, _)
Depth(p, x, k) == IF p[x] = x \/ k = 0 THEN 0 ELSE 1 + Depth(p, p[x], k - 1)

\* C15: when union(A, B) proceeds with distinct roots rx (of A) and ry (of
\* B): if size(rx) < size(ry) then rx's parent becomes ry and ry's size counter
\* grows by size(rx); otherwise, including when the sizes are equal, ry's
\* parent becomes rx and rx's size counter grows by size(ry); no other node's
\* size counter changes.
C15_SmallerRootUnderLarger ==
  [][\A i \in 1..(NumKernels + NumMore), j \in 1..(NumSources + NumMore) :
       LET rx == TrueRoot(_parent, KernelAt(i))
           ry == TrueRoot(_parent, SourceAt(j))
       IN  (Place(i, j) /\ rx # ry) =>
             IF _tree_size[rx] < _tree_size[ry]
               THEN /\ _parent'[rx] = ry
                    /\ _tree_size' =
                         [_tree_size EXCEPT ![ry] = @ + _tree_size[rx]]
               ELSE /\ _parent'[ry] = rx
                    /\ _tree_size' =
                         [_tree_size EXCEPT ![rx] = @ + _tree_size[ry]]]_vars

\* C16: after any sequence of union calls starting from singleton nodes, the
\* number of parent links from any node to the root of its set is at most
\* floor(log2(n)), n the number of nodes of that set: 2^depth <= n (for every
\* node whose chain ends at a root).
C16_LogarithmicDepth ==
  \A x \in Node :
    _parent[TrueRoot(_parent, x)] = TrueRoot(_parent, x) =>
      2 ^ Depth(_parent, x, Cardinality(Node)) <= Cardinality(SetOf(_parent, x))

\* C17: set membership only grows: two nodes whose parent chains end at the
\* same self-parented root remain in one set after every later union call.
C17_SetsOnlyGrow ==
  [][\A a, b \in Node :
       (/\ TrueRoot(_parent, a) = TrueRoot(_parent, b)
        /\ _parent[TrueRoot(_parent, a)] = TrueRoot(_parent, a)) =>
         /\ TrueRoot(_parent', a) = TrueRoot(_parent', b)
         /\ _parent'[TrueRoot(_parent', a)] = TrueRoot(_parent', a)]_vars

\* C18: in every reachable state the parent pointers form a forest: following
\* parent links from any node reaches a node that is its own parent, so there
\* is no parent cycle of length greater than one.
C18_ParentsFormForest ==
  \A x \in Node : _parent[TrueRoot(_parent, x)] = TrueRoot(_parent, x)

\* The first NumKernels kernels of the graph are placed, in either build, and
\* any node is looked up between the _union calls.
NextFind ==
  \/ \E i \in 1..NumKernels, j \in 1..(NumSources + NumMore) : Place(i, j)
  \/ \E x \in Node : Find(x)

SpecFind == InitUnionFind /\ [][NextFind]_vars

\* The nodes on the parent chain of x, x itself left out (at most k links).
RECURSIVE Ancestors(_, _, _)
Ancestors(p, x, k) ==
  IF p[x] = x \/ k = 0 THEN {} ELSE {p[x]} \cup Ancestors(p, p[x], k - 1)

num_successors(n) == Len(_successors[n])
num_dependents(n) == Len(_dependents[n])

\* _precede with the fetch_add on rhs->_num_dependents left out.
_precede_no_fetch_add(this, rhs) ==
  /\ _successors' = [_successors EXCEPT ![this] = Append(@, rhs)]
  /\ _dependents' = [_dependents EXCEPT ![rhs] = Append(@, this)]
  /\ UNCHANGED _num_dependents

\* _precede with the push_back on rhs->_dependents left out.
_precede_no_dependent(this, rhs) ==
  /\ _successors' = [_successors EXCEPT ![this] = Append(@, rhs)]
  /\ UNCHANGED _dependents
  /\ _num_dependents' = [_num_dependents EXCEPT ![rhs] = @ + 1]

\* Node::_precede, called on `this` with argument rhs, by one thread alone.
_precede(this, rhs) ==
  /\ _successors' = [_successors EXCEPT ![this] = Append(@, rhs)]
  /\ _dependents' = [_dependents EXCEPT ![rhs] = Append(@, this)]
  /\ _num_dependents' = [_num_dependents EXCEPT ![rhs] = @ + 1]

\* The builder calls U._precede(V) while the graph is being wired.
Precede(u, v) ==
  /\ phase = "build"
  /\ Len(precede_log) < MaxEdges
  /\ _precede(u, v)
  /\ precede_log' = Append(precede_log, <<u, v>>)
  /\ UNCHANGED <<ufVars, raceVars, execVars, groupVars, nodeVars>>

InitPrecede ==
  /\ NodeInit
  /\ RestInit
  /\ HostNodes
  /\ proposal = [c \in Claimer |-> 0]
  /\ ndebug = TRUE

NextPrecede == \E u, v \in Task : Precede(u, v)

SpecPrecede == InitPrecede /\ [][NextPrecede]_vars

\* Number of _precede calls so far that named v as target, and that were
\* U._precede(V).
CallsNaming(v) == Cardinality({i \in DOMAIN precede_log : precede_log[i][2] = v})
CallsOf(u, v)  == Cardinality({i \in DOMAIN precede_log : precede_log[i] = <<u, v>>})

\* C6: after any sequence of precede calls on fresh nodes, every node's
\* pending-dependency counter equals the number of precede calls that named
\* it as target, which equals num_dependents of the node; a node never named
\* has counter 0.
C6_CounterIsIncomingCalls ==
  \A v \in Node :
    /\ _num_dependents[v] = CallsNaming(v)
    /\ _num_dependents[v] = num_dependents(v)
    /\ (CallsNaming(v) = 0 => _num_dependents[v] = 0)

C6_Witness ==
  \E v, w \in Task :
    /\ CallsNaming(v) = 2 /\ _num_dependents[v] = 2
    /\ CallsNaming(w) = 0 /\ num_successors(w) > 0

\* C7 as stated: for every recorded edge U -> V, V is exactly once in
\* U.successors and U is exactly once in V.dependents (read for edges between
\* two different nodes: an edge from a node to itself is a cycle, which the
\* caller must not build).
C7_EdgeListedExactlyOnce ==
  \A u, v \in Node :
    (u # v /\ CallsOf(u, v) > 0) =>
      /\ Count(_successors[u], v) = 1
      /\ Count(_dependents[v], u) = 1

\* C7 amended: V is in U.successors as many times as U is in V.dependents,
\* once per precede(U, V) call; exactly once when precede(U, V) was called
\* exactly once.
C7_EdgeListedOncePerCall ==
  \A u, v \in Node :
    /\ Count(_successors[u], v) = CallsOf(u, v)
    /\ Count(_dependents[v], u) = CallsOf(u, v)

C7_Witness ==
  \E u, v, w \in Task :
    /\ u # v /\ w # v /\ w # u
    /\ CallsOf(u, v) = 2 /\ Count(_dependents[v], u) = 2
    /\ CallsOf(u, w) = 1 /\ Count(_successors[u], w) = 1

\* ------------------------------------- _precede from several threads at once

\* Thread t runs U_t._precede(V): its own node is t, the shared target is V.
RaceTarget == NumRacers + 1

\* Line 161: _successors.push_back(rhs) on the thread's own node.
RaceL161(t) ==
  /\ race_pc[t] = "L161"
  /\ _successors' = [_successors EXCEPT ![t] = Append(@, RaceTarget)]
  /\ race_pc' = [race_pc EXCEPT ![t] = "L162_load"]
  /\ UNCHANGED <<_dependents, _num_dependents, precede_log, race_end, race_mem>>
  /\ UNCHANGED <<ufVars, execVars, groupVars, nodeVars>>

\* Line 162, first half: rhs->_dependents.push_back(this) is a plain,
\* unsynchronised vector append; it begins by loading the vector's end.
RaceL162Load(t) ==
  /\ race_pc[t] = "L162_load"
  /\ race_end' = [race_end EXCEPT ![t] = Len(_dependents[RaceTarget])]
  /\ race_pc' = [race_pc EXCEPT ![t] = "L162_store"]
  /\ UNCHANGED <<graphVars, race_mem>>
  /\ UNCHANGED <<ufVars, execVars, groupVars, nodeVars>>

\* Line 162, second half: the element is stored in the slot after the loaded
\* end and the end is set one past it. (Two plain stores; no step of another
\* thread reads anything between them that it would not read after both.)
RaceL162Store(t) ==
  /\ race_pc[t] = "L162_store"
  /\ LET mem == [race_mem EXCEPT ![race_end[t] + 1] = t]
     IN  /\ race_mem' = mem
         /\ _dependents' = [_dependents EXCEPT
                              ![RaceTarget] = [i \in 1..(race_end[t] + 1) |-> mem[i]]]
  /\ race_pc' = [race_pc EXCEPT ![t] = "L163"]
  /\ UNCHANGED <<_successors, _num_dependents, precede_log, race_end>>
  /\ UNCHANGED <<ufVars, execVars, groupVars, nodeVars>>

\* Line 163: rhs->_num_dependents.fetch_add(1, relaxed), one atomic step; the
\* call returns.
RaceL163(t) ==
  /\ race_pc[t] = "L163"
  /\ _num_dependents' = [_num_dependents EXCEPT ![RaceTarget] = @ + 1]
  /\ precede_log' = Append(precede_log, <<t, RaceTarget>>)
  /\ race_pc' = [race_pc EXCEPT ![t] = "done"]
  /\ UNCHANGED <<_successors, _dependents, race_end, race_mem>>
  /\ UNCHANGED <<ufVars, execVars, groupVars, nodeVars>>

InitRace ==
  /\ NodeInit
  /\ RestInit
  /\ HostNodes
  /\ proposal = [c \in Claimer |-> 0]
  /\ ndebug = TRUE

NextRace ==
  \E t \in Racer :
    \/ RaceL161(t)
    \/ RaceL162Load(t)
    \/ RaceL162Store(t)
    \/ RaceL163(t)

SpecRace == InitRace /\ [][NextRace]_vars

\* C8: when several threads call precede on one not-yet-started target V,
\* each from its own predecessor, then once all calls have returned V's
\* counter equals the number of calls and V.dependents holds each predecessor
\* exactly once.
C8_NoLostIncrementOrEntry ==
  (\A t \in Racer : race_pc[t] = "done") =>
    /\ _num_dependents[RaceTarget] = NumRacers
    /\ \A t \in Racer : Count(_dependents[RaceTarget], t) = 1

\* ------------------------------------------------------------- the executor

\* v is reachable from u along recorded edges (in at most NumTasks hops).
RECURSIVE ReachIn(_, _, _)
ReachIn(u, v, k) ==
  \/ u = v
  \/ /\ k > 0
     /\ \E i \in DOMAIN _successors[u] : ReachIn(_successors[u][i], v, k - 1)

Reaches(u, v) == ReachIn(u, v, NumTasks)

\* The builder adds an edge that closes no cycle.
BuildEdge(u, v) ==
  /\ ~Reaches(v, u)
  /\ Precede(u, v)

\* The graph is handed to the executor: every node whose counter is zero is
\* dispatched.
StartRun ==
  /\ phase = "build"
  /\ phase' = "run"
  /\ nstate' = [n \in Node |->
                  IF n \in Task /\ _num_dependents[n] = 0 THEN "ready" ELSE "waiting"]
  /\ dispatched' = [n \in Node |->
                      IF n \in Task /\ _num_dependents[n] = 0 THEN 1 ELSE 0]
  /\ UNCHANGED notify_idx
  /\ UNCHANGED <<ufVars, graphVars, raceVars, groupVars, nodeVars>>

\* The nodes a worker thread currently holds.
Held == {n \in Task : nstate[n] \in {"running", "notifying"}}

\* A free worker takes a dispatched node and begins executing it.
Begin(n) ==
  /\ phase = "run"
  /\ nstate[n] = "ready"
  /\ Cardinality(Held) < NumWorkers
  /\ nstate' = [nstate EXCEPT ![n] = "running"]
  /\ UNCHANGED <<phase, notify_idx, dispatched>>
  /\ UNCHANGED <<ufVars, graphVars, raceVars, groupVars, nodeVars>>

\* The node's work completes; its worker turns to the node's successors.
Complete(n) ==
  /\ nstate[n] = "running"
  /\ nstate' = [nstate EXCEPT ![n] = "notifying"]
  /\ UNCHANGED <<phase, notify_idx, dispatched>>
  /\ UNCHANGED <<ufVars, graphVars, raceVars, groupVars, nodeVars>>

\* The worker atomically decrements the counter of the next successor entry
\* and dispatches that successor when its own decrement brought it to zero.
Notify(n) ==
  /\ nstate[n] = "notifying"
  /\ notify_idx[n] <= Len(_successors[n])
  /\ LET s   == _successors[n][notify_idx[n]]
         old == _num_dependents[s]
     IN  /\ _num_dependents' = [_num_dependents EXCEPT ![s] = old - 1]
         /\ IF old = 1
              THEN /\ nstate' = [nstate EXCEPT ![s] = "ready"]
                   /\ dispatched' = [dispatched EXCEPT ![s] = @ + 1]
              ELSE UNCHANGED <<nstate, dispatched>>
  /\ notify_idx' = [notify_idx EXCEPT ![n] = @ + 1]
  /\ UNCHANGED <<phase, _successors, _dependents, precede_log>>
  /\ UNCHANGED <<ufVars, raceVars, groupVars, nodeVars>>

\* Every successor entry has been decremented; the worker is free again.
Finish(n) ==
  /\ nstate[n] = "notifying"
  /\ notify_idx[n] > Len(_successors[n])
  /\ nstate' = [nstate EXCEPT ![n] = "done"]
  /\ UNCHANGED <<phase, notify_idx, dispatched>>
  /\ UNCHANGED <<ufVars, graphVars, raceVars, groupVars, nodeVars>>

InitExec ==
  /\ NodeInit
  /\ RestInit
  /\ HostNodes
  /\ proposal = [c \in Claimer |-> 0]
  /\ ndebug = TRUE

NextExec ==
  \/ \E u, v \in Task : BuildEdge(u, v)
  \/ StartRun
  \/ \E n \in Task : Begin(n)
  \/ \E n \in Task : Complete(n)
  \/ \E n \in Task : Notify(n)
  \/ \E n \in Task : Finish(n)

SpecExec == InitExec /\ [][NextExec]_vars

\* The node's work has completed.
Completed(n) == nstate[n] \in {"notifying", "done"}
\* The node has begun executing.
Begun(n) == nstate[n] \in {"running", "notifying", "done"}
\* The run has nothing left to do.
Quiescent ==
  /\ phase = "run"
  /\ \A n \in Task : nstate[n] \notin {"ready", "running", "notifying"}

\* C9: for an acyclic graph built by precede, under every interleaving of the
\* workers no node begins executing before all of its predecessors have
\* completed, every node is dispatched exactly once (never twice, and once by
\* the time the run has nothing left to do), and no counter goes below zero.
C9_ReadinessByZeroCrossing ==
  /\ \A n \in Task :
       Begun(n) => \A i \in DOMAIN _dependents[n] : Completed(_dependents[n][i])
  /\ \A n \in Task : dispatched[n] <= 1
  /\ Quiescent => \A n \in Task : dispatched[n] = 1 /\ nstate[n] = "done"
  /\ \A n \in Task : _num_dependents[n] >= 0

\* Two workers are decrementing at once and a node with two different
\* predecessors has been dispatched and begun.
C9_Witness ==
  \E a, b, c \in Task :
    /\ a # b /\ a # c /\ b # c
    /\ nstate[a] = "notifying" /\ nstate[b] = "notifying"
    /\ Count(_dependents[c], a) > 0 /\ Count(_dependents[c], b) > 0
    /\ _num_dependents[c] > 0

\* ------------------------------------------------ DeviceGroup: claim and join

\* claim(group, d): one compare-and-swap on device_id from unassigned to d;
\* the caller gets d when its swap succeeded and the value it found otherwise.
Claim(c) ==
  /\ claim_pc[c] = "call"
  /\ IF device_id = -1
       THEN /\ device_id' = proposal[c]
            /\ claim_ret' = [claim_ret EXCEPT ![c] = proposal[c]]
       ELSE /\ UNCHANGED device_id
            /\ claim_ret' = [claim_ret EXCEPT ![c] = device_id]
  /\ claim_pc' = [claim_pc EXCEPT ![c] = "done"]
  /\ UNCHANGED <<num_tasks, proposal, join_pc>>
  /\ UNCHANGED <<ufVars, graphVars, raceVars, execVars, nodeVars>>

\* join(group): one atomic increment of num_tasks.
Join(j) ==
  /\ join_pc[j] = "call"
  /\ num_tasks' = num_tasks + 1
  /\ join_pc' = [join_pc EXCEPT ![j] = "done"]
  /\ UNCHANGED <<device_id, proposal, claim_pc, claim_ret>>
  /\ UNCHANGED <<ufVars, graphVars, raceVars, execVars, nodeVars>>

\* The callers' proposals are distinct devices.
InitGroup ==
  /\ NodeInit
  /\ RestInit
  /\ HostNodes
  /\ ndebug = TRUE
  /\ proposal \in {f \in [Claimer -> Device] :
                     \A a, b \in Claimer : a # b => f[a] # f[b]}

NextGroup ==
  \/ \E c \in Claimer : Claim(c)
  \/ \E j \in Joiner : Join(j)

SpecGroup == InitGroup /\ [][NextGroup]_vars

\* C10: from an unassigned device id, under any interleaving of concurrent
\* claim calls with distinct proposals, the device id is set at most once (once
\* concrete it never changes), every call returns that one value, and the
\* value is one of the proposals.
C10_ClaimSingleWinner ==
  /\ [](\A c \in Claimer :
          claim_pc[c] = "done" =>
            /\ claim_ret[c] = device_id
            /\ claim_ret[c] \in {proposal[k] : k \in Claimer}
            /\ \A k \in Claimer :
                 claim_pc[k] = "done" => claim_ret[k] = claim_ret[c])
  /\ [](device_id = -1 \/ device_id \in {proposal[k] : k \in Claimer})
  /\ [][device_id # -1 => device_id' = device_id]_vars

\* Every caller has returned, and the winner was not the first caller.
C10_Witness ==
  /\ \A c \in Claimer : claim_pc[c] = "done"
  /\ device_id # -1
  /\ device_id # proposal[1]
  /\ \E c \in Claimer : claim_ret[c] # proposal[c]

\* C11: for a DeviceGroup whose member counter starts at 0, under any
\* interleaving of concurrent join calls (and claim calls), the counter equals
\* the number of join calls that have returned; once all calls have returned
\* it equals the number of join calls made.
C11_JoinCountsEveryCall ==
  /\ num_tasks = Cardinality({j \in Joiner : join_pc[j] = "done"})
  /\ (\A j \in Joiner : join_pc[j] = "done") => num_tasks = NumJoiners

\* Every join has returned, with a claim made before the last of them.
C11_Witness ==
  /\ \A j \in Joiner : join_pc[j] = "done"
  /\ num_tasks = NumJoiners
  /\ \E c \in Claimer : claim_pc[c] = "done"

\* ------------------------------------------------- payload kind of a node

HOST_IDX     == 0
PULL_IDX     == 1
PUSH_IDX     == 2
KERNEL_IDX   == 3
TRANSFER_IDX == 4

is_host(n) == index(_handle[n]) = HOST_IDX
is_pull(n) == index(_handle[n]) = PULL_IDX
is_push(n) == index(_handle[n]) = PUSH_IDX

\* is_transfer comparing against the index of the Kernel alternative.
is_transfer_kernel_idx(n) == index(_handle[n]) = KERNEL_IDX

is_transfer(n) == index(_handle[n]) = TRANSFER_IDX
is_kernel(n)   == index(_handle[n]) = KERNEL_IDX
is_device(n)   == is_push(n) \/ is_pull(n) \/ is_kernel(n) \/ is_transfer(n)

\* A caller evaluates the six classification queries on node n.
Classify(n) ==
  /\ result' = [op |-> "classify", node |-> n,
                is_host |-> is_host(n), is_pull |-> is_pull(n),
                is_push |-> is_push(n), is_transfer |-> is_transfer(n),
                is_kernel |-> is_kernel(n), is_device |-> is_device(n)]
  /\ UNCHANGED <<_handle, _name>>
  /\ UNCHANGED <<ufVars, graphVars, raceVars, execVars, groupVars>>

\* C12: for every node, whatever its payload kind, exactly one of is_host,
\* is_pull, is_push, is_transfer, is_kernel is true, and is_device is true
\* exactly when the kind is Pull, Push, Transfer or Kernel, which is exactly
\* when is_host is false.
C12_ExactlyOneKind ==
  result.op = "classify" =>
    /\ Cardinality({q \in {"is_host", "is_pull", "is_push", "is_transfer", "is_kernel"} :
                      result[q]}) = 1
    /\ result.is_device <=>
         (_handle[result.node].type \in {"Pull", "Push", "Transfer", "Kernel"})
    /\ result.is_device <=> ~result.is_host

\* A Transfer node was classified.
C12_Witness ==
  /\ result.op = "classify"
  /\ _handle[result.node].type = "Transfer"
  /\ result.is_transfer /\ result.is_device

\* ------------------------------------------------ typed payload accessors

\* nstd::get<T>(v): the data of the active alternative when it is T, and a
\* bad_variant_access exception otherwise.
get(T, h) ==
  IF h.type = T
    THEN [status |-> "ok", work |-> h.work]
    ELSE [status |-> "bad_variant_access", work |-> 0]

_host_handle(n) == get("Host", _handle[n])

\* _push_handle asking the variant for its Pull alternative.
_push_handle_gets_pull(n) == get("Pull", _handle[n])

_push_handle(n)     == get("Push", _handle[n])
_transfer_handle(n) == get("Transfer", _handle[n])
_pull_handle(n)     == get("Pull", _handle[n])
_kernel_handle(n)   == get("Kernel", _handle[n])

\* A caller asks node n for its payload as kind T.
Access(n, T) ==
  /\ result' = [op |-> "get", node |-> n, type |-> T,
                ret |-> CASE T = "Host"     -> _host_handle(n)
                          [] T = "Push"     -> _push_handle(n)
                          [] T = "Transfer" -> _transfer_handle(n)
                          [] T = "Pull"     -> _pull_handle(n)
                          [] T = "Kernel"   -> _kernel_handle(n)]
  /\ UNCHANGED <<_handle, _name>>
  /\ UNCHANGED <<ufVars, graphVars, raceVars, execVars, groupVars>>

\* C13: a typed payload accessor returns the node's payload when the
\* requested kind is the node's active kind and fails with a type-mismatch
\* error when it is not; a failed access leaves the node's payload, adjacency
\* lists, counter and union-find fields unchanged.
C13_TypedAccess ==
  /\ [](result.op = "get" =>
          IF result.type = _handle[result.node].type
            THEN /\ result.ret.status = "ok"
                 /\ result.ret.work = _handle[result.node].work
            ELSE result.ret.status = "bad_variant_access")
  /\ [][\A n \in Built, T \in Kind :
          (Access(n, T) /\ T # _handle[n].type) =>
            UNCHANGED <<_handle, _name, _successors, _dependents,
                        _num_dependents, _parent, _tree_size>>]_vars

\* A node with successors was asked for a kind it does not hold, and the
\* access failed.
C13_Witness ==
  /\ result.op = "get"
  /\ result.type = "Pull"
  /\ _handle[result.node].type = "Push"
  /\ result.ret.status = "bad_variant_access"
  /\ _successors[result.node] # <<>>

\* ---------------------------------------------------------------------- dump

\* `os << 'p' << this`: the node's address after the letter p.
Addr(n) == "p" \o ToString(n)

\* dump that writes the declaration and no edge line.
dump_no_edges(n) ==
  <<Addr(n) \o "[label=\"" \o (IF _name[n] = "" THEN Addr(n) ELSE _name[n]) \o "\"];">>

\* Node::dump(std::ostream&) on node n: the lines written to the stream, each
\* without its terminating newline.
dump(n) ==
  LET label == IF _name[n] = "" THEN Addr(n) \o "\"" ELSE _name[n] \o "\""
      color == CASE index(_handle[n]) = 1 -> " style=filled fillcolor=\"cyan\""
                 [] index(_handle[n]) = 2 -> " style=filled fillcolor=\"springgreen\""
                 [] index(_handle[n]) = 3 ->
                      " style=filled fillcolor=\"black\" fontcolor=\"white\""
                 [] index(_handle[n]) = 4 -> " style=filled fillcolor=\"coral\""
                 [] OTHER -> ""
  IN  <<Addr(n) \o "[label=\"" \o label \o color \o "];">>
        \o [i \in 1..Len(_successors[n]) |->
              Addr(n) \o " -> " \o Addr(_successors[n][i]) \o ";"]

\* A caller dumps node n (Node::dump() returns what dump(os) wrote).
Dump(n) ==
  /\ result' = [op |-> "dump", node |-> n, out |-> dump(n)]
  /\ UNCHANGED <<_handle, _name>>
  /\ UNCHANGED <<ufVars, graphVars, raceVars, execVars, groupVars>>

\* The fill colour and font colour the node declaration of each kind carries.
FillOf(k) ==
  CASE k = "Pull"     -> "cyan"
    [] k = "Push"     -> "springgreen"
    [] k = "Kernel"   -> "black"
    [] k = "Transfer" -> "coral"

StyleOf(k) ==
  IF k = "Host" THEN ""
  ELSE " style=filled fillcolor=\"" \o FillOf(k) \o "\""
         \o (IF k = "Kernel" THEN " fontcolor=\"white\"" ELSE "")

\* C14: dump of a node emits exactly one node declaration whose fill colour is
\* fixed by the payload kind (Pull cyan, Push springgreen, Kernel black with
\* white font, Transfer coral, Host unstyled), followed by exactly one edge
\* line per entry of the node's successor list, in successor-list order; dump
\* changes no field of the node.
C14_DumpDeclarationThenEdges ==
  [][\A n \in Built :
       Dump(n) =>
         LET out  == result'.out
             succ == _successors[n]
             name == IF _name[n] = "" THEN Addr(n) ELSE _name[n]
         IN  /\ Len(out) = 1 + Len(succ)
             /\ out[1] = Addr(n) \o "[label=\"" \o name \o "\""
                           \o StyleOf(_handle[n].type) \o "];"
             /\ \A i \in DOMAIN succ :
                  out[i + 1] = Addr(n) \o " -> " \o Addr(succ[i]) \o ";"
             /\ UNCHANGED <<_handle, _name, _successors, _dependents,
                            _num_dependents, _parent, _tree_size>>]_vars

\* A named Kernel node with two successors other than itself, in an order
\* other than that of their addresses, was dumped.
C14_Witness ==
  /\ result.op = "dump"
  /\ _handle[result.node].type = "Kernel"
  /\ _name[result.node] # ""
  /\ Len(result.out) = 3
  /\ Len(_successors[result.node]) = 2
  /\ _successors[result.node][1] > _successors[result.node][2]
  /\ _successors[result.node][2] # result.node

\* -------------------------------------------- nodes of every kind: the spec

\* Each built node is constructed from a payload of any kind, whose work is
\* the node's own callable, and is named or left unnamed.
InitNode ==
  /\ NodeInit
  /\ RestInit
  /\ proposal = [c \in Claimer |-> 0]
  /\ ndebug = TRUE
  /\ \E k \in [Built -> Kind] :
       _handle = [n \in Node |->
                    [type |-> IF n \in Built THEN k[n] ELSE "Host", work |-> n]]
  /\ \E s \in [Built -> {"", "task"}] :
       _name = [n \in Node |-> IF n \in Built THEN s[n] ELSE ""]
  /\ result = [op |-> "none"]

NextNode ==
  \/ \E u \in Built, v \in Task : Precede(u, v)
  \/ \E n \in Built : Classify(n)
  \/ \E n \in Built, T \in Kind : Access(n, T)
  \/ \E n \in Built : Dump(n)

SpecNode == InitNode /\ [][NextNode]_vars

====
